---- MODULE Spec2Model ----
(***************************************************************************)
(* Verification model of django-orchestra:                                 *)
(*   - the Apache restart coordination of PHPBackend.prepare / commit      *)
(*     (src/orchestra/contrib/webapps/backends/php.py), SpecCoord;         *)
(*   - the scripts generated by PHPBackend.save / delete executed on a     *)
(*     host, SpecSave;                                                     *)
(*   - Bill.payment_state and Bill.close                                   *)
(*     (src/orchestra/contrib/bills/models.py), SpecBill;                  *)
(*   - Bill.compute_total and the breakdown of the total, SpecTotal;       *)
(*   - the bills table and concurrent closes, SpecClose;                   *)
(*   - Bill.clean, SpecClean;                                              *)
(*   - the lru_cache around Bill.compute_total, SpecMemo;                  *)
(*   - WordpressMuBackend.save                                             *)
(*     (src/orchestra/contrib/saas/backends/wordpressmu.py), SpecSaas;     *)
(*   - send_pending (src/orchestra/contrib/mailer/engine.py), SpecMail.    *)
(***************************************************************************)
EXTENDS Integers, Sequences, FiniteSets, TLC

VARIABLES
    \* ---- coordination of the Apache restart (SpecCoord) ----
    restart_apache2,         \* the file /dev/shm/restart.apache2
    restart_apache2_locked,  \* the file /dev/shm/restart.apache2.locked
    pc,                      \* position of every backend's script
    state,                   \* shell variable $state of every script
    is_last,                 \* shell variable $is_last of every script
    UPDATED_APACHE,          \* shell variable $UPDATED_APACHE at commit
    reloads,                 \* number of "service apache2 reload/start" run
    sawLast,                 \* scripts that went through the is_last=1 branch
    early,                   \* a script saw is_last=1 while another, announced, had not committed
    \* ---- the scripts of PHPBackend.save / delete run on a host (SpecSave) ----
    MERGE,                   \* settings.WEBAPPS_MERGE_PHP_WEBAPPS
    sharedPaths,             \* the path templates name the account, not the webapp
    webapp,                  \* the webapps in the database
    files,                   \* the configuration files on the host
    lastRun,                 \* the last script generated, and what its run did
    dirty,                   \* the database changed since the last script ran
    edits,                   \* number of changes made to the webapps
    \* ---- a bill and its ledger (SpecBill) ----
    bill,                    \* the fields of the Bill instance
    transactions,            \* bill.transactions, the ledger
    cached,                  \* the cached_property payment_state of the instance
    result,                  \* what the last call returned or raised
    \* ---- the bills table and the processes closing bills (SpecClose) ----
    objects,                 \* Bill.objects: the rows of the bills, by pk
    archive,                 \* the numbers of the bills closed earlier
    inst,                    \* the Bill instance each process holds in memory
    year,                    \* the year of timezone.now()
    attempts,                \* number of close calls made
    \* ---- the bills of a process and its lru_cache (SpecMemo) ----
    rows,                    \* the rows of the bills with their lines, by pk
    held,                    \* the Bill instances the process holds in memory
    lru,                     \* the cache of lru_cache around Bill.compute_total
    \* ---- the script of WordpressMuBackend (SpecSaas) ----
    saas,                    \* the SaaS instances
    cmds,                    \* the script buffer of the backend
    invoked,                 \* the callables the executor has invoked
    flushed,                 \* the script was handed to the executor
    \* ---- the mail queue and a run of send_pending (SpecMail) ----
    messages,                \* the rows of Message, by pk
    phase,                   \* the position of send_pending
    connection,              \* the local variable connection of send_pending
    cur,                     \* the local variable cur of send_pending
    todo,                    \* the messages the running loop has still to visit
    tries,                   \* the number of times send_message was called for each message
    bulk                     \* the argument bulk of send_pending

coordVars == <<restart_apache2, restart_apache2_locked, pc, state, is_last,
               UPDATED_APACHE, reloads, sawLast, early>>

saveVars == <<MERGE, sharedPaths, webapp, files, lastRun, dirty, edits>>

billVars == <<bill, transactions, cached, result>>

closeVars == <<objects, archive, inst, year, attempts>>

memoVars == <<rows, held, lru>>

saasVars == <<saas, cmds, invoked, flushed>>

mailVars == <<messages, phase, connection, cur, todo, tries, bulk>>

vars == <<coordVars, saveVars, billVars, closeVars, memoVars, saasVars, mailVars>>

(***************************************************************************)
(* Bounds                                                                  *)
(***************************************************************************)
NumBackends == 3

Backends == 1 .. NumBackends

(***************************************************************************)
(* Files and lines.  A line is the sequence of the words written on it: a  *)
(* backend name, or the word " RESTART".  A file is its lines, and whether *)
(* the last line is terminated by a newline.                               *)
(***************************************************************************)
RESTART == 0

NoFile == [exists |-> FALSE]

File(ls, n) == [exists |-> TRUE, lines |-> ls, nl |-> n]

\* echo "<text>" >> file : appends the text and a newline; the text
\* continues the last line when that line has no newline yet
EchoAppend(f, text) ==
    IF ~f.exists \/ f.lines = <<>> THEN File(<<text>>, TRUE)
    ELSE IF f.nl THEN File(Append(f.lines, text), TRUE)
    ELSE File([f.lines EXCEPT ![Len(f.lines)] = @ \o text], TRUE)

\* echo -n "$state" > file : the lines of $state, no trailing newline
EchoN(st) == File(st, FALSE)

Contains(line, b) == \E i \in DOMAIN line : line[i] = b

EndsRestart(line) == line # <<>> /\ line[Len(line)] = RESTART

\* grep -v "$backend" file : the lines that do not contain $backend
GrepV(f, b) == SelectSeq(f.lines, LAMBDA l : ~Contains(l, b))

\* echo "$state" | grep -v ' RESTART$' : the lines not ending in " RESTART"
GrepVRestart(st) == SelectSeq(st, LAMBDA l : ~EndsRestart(l))

\* [[ "$state" =~ .*RESTART$ ]] : the text of $state ends in RESTART
StateEndsRestart(st) == st # <<>> /\ EndsRestart(st[Len(st)])

\* lines 165-168: the value of $state and of $is_last after the two greps;
\* grep fails (status 1 or 2) when it selects no line or the file is missing
ReadState(f, b) ==
    LET st == IF f.exists THEN GrepV(f, b) ELSE <<>> IN
    IF st = <<>> THEN [state |-> <<>>, is_last |-> 1]
    ELSE IF GrepVRestart(st) = <<>> THEN [state |-> st, is_last |-> 1]
    ELSE [state |-> st, is_last |-> 0]

\* line 170: the condition under which the last script reloads Apache
NeedsReload(upd, st) == upd \/ StateEndsRestart(st)

\* ServiceController.prepare opens every script with "set -e": a failing
\* simple command ends the script
ErrExit == TRUE

(***************************************************************************)
(* SpecCoord: the scripts of the backends of one batch, interleaved.       *)
(***************************************************************************)
Unfinished == {"prepared", "retry"}

\* no bills table and no process: the state of the variables of SpecClose
\* in the other specifications
NoClose ==
    /\ objects = <<>>
    /\ archive = {}
    /\ inst = <<>>
    /\ year = 0
    /\ attempts = 0

\* the variables of the bills of a process and its lru_cache (SpecMemo) in the other specifications
NoMemo ==
    /\ rows = <<>>
    /\ held = <<>>
    /\ lru = <<>>

\* the variables of the script of WordpressMuBackend (SpecSaas) in the other specifications
NoSaas ==
    /\ saas = <<>>
    /\ cmds = <<>>
    /\ invoked = <<>>
    /\ flushed = FALSE

\* the variables of the mail queue and a run of send_pending (SpecMail) in the other specifications
NoMail ==
    /\ messages = <<>>
    /\ phase = ""
    /\ connection = ""
    /\ cur = 0
    /\ todo = <<>>
    /\ tries = <<>>
    /\ bulk = 0

InitCoord ==
    /\ restart_apache2 = NoFile
    /\ restart_apache2_locked = NoFile
    /\ pc = [b \in Backends |-> "start"]
    /\ state = [b \in Backends |-> <<>>]
    /\ is_last = [b \in Backends |-> 0]
    /\ UPDATED_APACHE = [b \in Backends |-> FALSE]
    /\ reloads = 0
    /\ sawLast = {}
    /\ early = FALSE
    /\ bill = <<>>
    /\ transactions = <<>>
    /\ cached = ""
    /\ result = <<>>
    /\ MERGE = FALSE
    /\ sharedPaths = FALSE
    /\ webapp = <<>>
    /\ files = <<>>
    /\ lastRun = <<>>
    /\ dirty = FALSE
    /\ edits = 0
    /\ NoClose
    /\ NoMemo
    /\ NoSaas
    /\ NoMail

\* prepare: echo "$backend" >> /dev/shm/restart.apache2
Prepare(b) ==
    /\ pc[b] = "start"
    /\ restart_apache2' = EchoAppend(restart_apache2, <<b>>)
    /\ pc' = [pc EXCEPT ![b] = "prepared"]
    /\ UNCHANGED <<saveVars, billVars, closeVars, memoVars, saasVars, mailVars, restart_apache2_locked, state, is_last, UPDATED_APACHE,
                   reloads, sawLast, early>>

\* the save and delete statements of the script have run and left
\* UPDATED_APACHE set or not; then line 161, the first mv
Lock(b) ==
    /\ pc[b] = "prepared"
    /\ \E upd \in BOOLEAN : UPDATED_APACHE' = [UPDATED_APACHE EXCEPT ![b] = upd]
    /\ is_last' = [is_last EXCEPT ![b] = 0]
    /\ IF restart_apache2.exists
       THEN /\ restart_apache2_locked' = restart_apache2
            /\ restart_apache2' = NoFile
            /\ pc' = [pc EXCEPT ![b] = "grep"]
       ELSE /\ pc' = [pc EXCEPT ![b] = "retry"]
            /\ UNCHANGED <<restart_apache2, restart_apache2_locked>>
    /\ UNCHANGED <<saveVars, billVars, closeVars, memoVars, saasVars, mailVars, state, reloads, sawLast, early>>

\* lines 162-163: sleep 0.2 and the second mv
Retry(b) ==
    /\ pc[b] = "retry"
    /\ IF restart_apache2.exists
       THEN /\ restart_apache2_locked' = restart_apache2
            /\ restart_apache2' = NoFile
            /\ pc' = [pc EXCEPT ![b] = "grep"]
       ELSE /\ pc' = [pc EXCEPT ![b] = IF ErrExit THEN "failed_mv" ELSE "grep"]
            /\ UNCHANGED <<restart_apache2, restart_apache2_locked>>
    /\ UNCHANGED <<saveVars, billVars, closeVars, memoVars, saasVars, mailVars, state, is_last, UPDATED_APACHE, reloads, sawLast, early>>

\* lines 165-169: the two greps and the test of is_last
Grep(b) ==
    /\ pc[b] = "grep"
    /\ LET r == ReadState(restart_apache2_locked, b) IN
         /\ state' = [state EXCEPT ![b] = r.state]
         /\ is_last' = [is_last EXCEPT ![b] = r.is_last]
         /\ pc' = [pc EXCEPT ![b] = IF r.is_last = 1 THEN "reload" ELSE "write"]
         /\ sawLast' = IF r.is_last = 1 THEN sawLast \cup {b} ELSE sawLast
         /\ early' = (early \/ (r.is_last = 1 /\
                        \E o \in Backends \ {b} : pc[o] \in Unfinished))
    /\ UNCHANGED <<saveVars, billVars, closeVars, memoVars, saasVars, mailVars, restart_apache2, restart_apache2_locked, UPDATED_APACHE, reloads>>

\* lines 170-176: reload or start Apache if a restart was requested
Reload(b) ==
    /\ pc[b] = "reload"
    /\ reloads' = IF NeedsReload(UPDATED_APACHE[b], state[b])
                  THEN reloads + 1 ELSE reloads
    /\ pc' = [pc EXCEPT ![b] = "rm"]
    /\ UNCHANGED <<saveVars, billVars, closeVars, memoVars, saasVars, mailVars, restart_apache2, restart_apache2_locked, state, is_last,
                   UPDATED_APACHE, sawLast, early>>

\* line 177: rm /dev/shm/restart.apache2.locked
Remove(b) ==
    /\ pc[b] = "rm"
    /\ IF restart_apache2_locked.exists
       THEN /\ restart_apache2_locked' = NoFile
            /\ pc' = [pc EXCEPT ![b] = "done"]
       ELSE /\ pc' = [pc EXCEPT ![b] = IF ErrExit THEN "failed_rm" ELSE "done"]
            /\ UNCHANGED restart_apache2_locked
    /\ UNCHANGED <<saveVars, billVars, closeVars, memoVars, saasVars, mailVars, restart_apache2, state, is_last, UPDATED_APACHE, reloads,
                   sawLast, early>>

\* line 179: echo -n "$state" > /dev/shm/restart.apache2.locked
Rewrite(b) ==
    /\ pc[b] = "write"
    /\ restart_apache2_locked' = EchoN(state[b])
    /\ pc' = [pc EXCEPT ![b] = IF UPDATED_APACHE[b] THEN "append" ELSE "release"]
    /\ UNCHANGED <<saveVars, billVars, closeVars, memoVars, saasVars, mailVars, restart_apache2, state, is_last, UPDATED_APACHE, reloads,
                   sawLast, early>>

\* lines 180-183: echo "$backend RESTART" >> /dev/shm/restart.apache2.locked
AppendRestart(b) ==
    /\ pc[b] = "append"
    /\ restart_apache2_locked' = EchoAppend(restart_apache2_locked, <<b, RESTART>>)
    /\ pc' = [pc EXCEPT ![b] = "release"]
    /\ UNCHANGED <<saveVars, billVars, closeVars, memoVars, saasVars, mailVars, restart_apache2, state, is_last, UPDATED_APACHE, reloads,
                   sawLast, early>>

\* line 184: mv /dev/shm/restart.apache2.locked /dev/shm/restart.apache2
Release(b) ==
    /\ pc[b] = "release"
    /\ IF restart_apache2_locked.exists
       THEN /\ restart_apache2' = restart_apache2_locked
            /\ restart_apache2_locked' = NoFile
            /\ pc' = [pc EXCEPT ![b] = "done"]
       ELSE /\ pc' = [pc EXCEPT ![b] = IF ErrExit THEN "failed_release" ELSE "done"]
            /\ UNCHANGED <<restart_apache2, restart_apache2_locked>>
    /\ UNCHANGED <<saveVars, billVars, closeVars, memoVars, saasVars, mailVars, state, is_last, UPDATED_APACHE, reloads, sawLast, early>>

NextCoord ==
    \E b \in Backends :
        \/ Prepare(b)
        \/ Lock(b)
        \/ Retry(b)
        \/ Grep(b)
        \/ Reload(b)
        \/ Remove(b)
        \/ Rewrite(b)
        \/ AppendRestart(b)
        \/ Release(b)

SpecCoord == InitCoord /\ [][NextCoord]_vars

(***************************************************************************)
(* Claims about the coordination                                           *)
(***************************************************************************)
InCritical == {"grep", "reload", "rm", "write", "append", "release"}

AllDone == \A b \in Backends : pc[b] = "done"

\* C1: in a batch, under every interleaving of the prepare and commit steps
\* of the backends, at most one commit observes is_last=1 and Apache is
\* reloaded or started at most once.
C1_AtMostOneLast == Cardinality(sawLast) <= 1 /\ reloads <= 1

\* C2: once every backend has finished commit, Apache has been reloaded
\* exactly once if some backend committed with UPDATED_APACHE=1, and not at
\* all if none did.
C2_ExactlyOnceIfNeeded ==
    AllDone => reloads = (IF \E b \in Backends : UPDATED_APACHE[b] THEN 1 ELSE 0)

\* C3: no commit observes is_last=1 while another backend that announced
\* itself in prepare has not yet run its commit.
C3_OnlyTheLastReloads == ~early

\* C4: two commits never operate on the locked marker at the same time, and
\* a commit whose mv failed twice has aborted without reading the marker,
\* without observing is_last=1 and without reloading Apache.
C4_MutualExclusion ==
    /\ Cardinality({b \in Backends : pc[b] \in InCritical}) <= 1
    /\ \A b \in Backends :
          pc[b] = "failed_mv" => (b \notin sawLast /\ state[b] = <<>> /\ is_last[b] = 0)

(***************************************************************************)
(* SpecSave: PHPBackend.save and PHPBackend.delete.  A script is the       *)
(* sequence of statements the backend appended; running it changes the     *)
(* configuration files of the host.                                        *)
(***************************************************************************)
NumWebapps == 2

NumVersions == 2

NumAccounts == 2

MaxOpt == 1

MaxEdits == 1

Webapps == 1 .. NumWebapps

\* settings.WEBAPPS_PHP_VERSIONS, in the order of the setting
PHP_VERSIONS == 1 .. NumVersions

Modes == {"fpm", "fcgid", "other"}

\* the formatted path of a configuration file: the kind of file, the
\* %(user)s or %(app_name)s of the template, and the PHP version
PathOf(kind, w, v) ==
    IF sharedPaths THEN <<kind, "user", webapp[w].account, v>>
    ELSE <<kind, "app", w, v>>

fpm_path(w, v) == PathOf("pool", w, v)

wrapper_path(w, v) == PathOf("wrapper", w, v)

cmd_options_path(w, v) == PathOf("cmd_options", w, v)

\* the rendered text of a configuration file, banner lines left out
fpm_config(w) == <<"fpm_config", webapp[w].version, webapp[w].opt>>

wrapper(w) == <<"wrapper", webapp[w].version, webapp[w].opt>>

\* get_fcgid_cmd_options returns None when no directive has a value
cmd_options(w) ==
    IF webapp[w].opt = 0 THEN <<>>
    ELSE <<"cmd_options", webapp[w].version, webapp[w].opt>>

Stmt(op, path, content, mounted) ==
    [op |-> op, path |-> path, content |-> content, mounted |-> mounted]

Plain(op) == Stmt(op, <<>>, <<>>, FALSE)

Rm(path) == Stmt("rm", path, <<>>, FALSE)

has_sibilings(w, v) ==
    \E o \in Webapps \ {w} :
        /\ webapp[o].exists
        /\ webapp[o].account = webapp[w].account
        /\ webapp[o].version = v

\* the condition of line 122 with the negation of has_sibilings lost
yields_version_negated(w, v, preserve) ==
    /\ ~(preserve /\ v = webapp[w].version)
    /\ (~MERGE \/ has_sibilings(w, v))

\* lines 117-123: whether all_versions_to_delete yields version v
yields_version(w, v, preserve) ==
    /\ ~(preserve /\ v = webapp[w].version)
    /\ (~MERGE \/ ~has_sibilings(w, v))

all_versions_to_delete(w, preserve) ==
    SelectSeq([i \in 1 .. NumVersions |-> i], LAMBDA v : yields_version(w, v, preserve))

delete_fpm(w, preserve) ==
    LET vs == all_versions_to_delete(w, preserve) IN
    [i \in 1 .. Len(vs) |-> Rm(fpm_path(w, vs[i]))]

delete_fcgid(w, preserve) ==
    LET vs == all_versions_to_delete(w, preserve) IN
    [i \in 1 .. 2 * Len(vs) |->
        IF i % 2 = 1 THEN Rm(wrapper_path(w, vs[(i + 1) \div 2]))
        ELSE Rm(cmd_options_path(w, vs[i \div 2]))]

save_fpm(w) ==
    << Stmt("write_fpm", fpm_path(w, webapp[w].version), fpm_config(w), FALSE) >>

save_fcgid(w) ==
    << Plain("mkdir_wrapper_dir"),
       Stmt("write_wrapper", wrapper_path(w, webapp[w].version), wrapper(w),
            webapp[w].mounted),
       IF cmd_options(w) # <<>>
       THEN Stmt("write_cmd_options", cmd_options_path(w, webapp[w].version),
                 cmd_options(w), webapp[w].mounted)
       ELSE Rm(cmd_options_path(w, webapp[w].version)) >>

\* the statements save has appended when it returns or raises
\* line 36, WebAppServiceMixin.create_webapp_dir: the statements that make
\* the directory of the webapp are appended to the script
create_webapp_dir == << Plain("create_webapp_dir") >>

save(w) ==
    LET head == create_webapp_dir
        tail == << Plain("comment") >> \o delete_fcgid(w, TRUE)
                    \o delete_fpm(w, TRUE) \o << Plain("set_under_construction") >>
    IN  IF webapp[w].mode = "fpm" THEN head \o save_fpm(w) \o tail
        ELSE IF webapp[w].mode = "fcgid" THEN head \o save_fcgid(w) \o tail
        ELSE head

save_raises(w) == webapp[w].mode \notin {"fpm", "fcgid"}

delete(w) ==
    (IF webapp[w].mode = "fpm" THEN delete_fpm(w, FALSE)
     ELSE IF webapp[w].mode = "fcgid" THEN delete_fcgid(w, FALSE)
     ELSE <<>>) \o << Plain("delete_webapp_dir") >>

\* a diff that compares the banner line as well: it always differs
DiffN_banner(fs, path, content) == TRUE

\* diff -N -I<banner> path - : fails when the file differs from the text
DiffN(fs, path, content) == <<path, content>> \notin fs

RemoveFile(fs, path) == {e \in fs : e[1] # path}

WriteFile(fs, path, content) == RemoveFile(fs, path) \cup {<<path, content>>}

\* the shell at the start of a script: no file written, no flag set
Shell(fs) == [files |-> fs, wrote |-> {}, UPDATED_FPM |-> 0, UPDATED_APACHE |-> 0,
              fpm_reloaded |-> FALSE, apache_reloaded |-> FALSE]

ExecStmt(sh, st) ==
    IF st.op = "rm" THEN [sh EXCEPT !.files = RemoveFile(@, st.path)]
    ELSE IF st.op \in {"write_fpm", "write_wrapper", "write_cmd_options"}
              /\ DiffN(sh.files, st.path, st.content)
    THEN [sh EXCEPT !.files = WriteFile(@, st.path, st.content),
                    !.wrote = @ \cup {st.path},
                    !.UPDATED_FPM = IF st.op = "write_fpm" THEN 1 ELSE @,
                    !.UPDATED_APACHE =
                        IF st.op = "write_cmd_options" /\ @ = 0
                        THEN (IF st.mounted THEN 1 ELSE 0) ELSE @]
    ELSE sh

RECURSIVE Exec(_, _)
Exec(sh, script) ==
    IF script = <<>> THEN sh ELSE Exec(ExecStmt(sh, Head(script)), Tail(script))

\* commit of a script that runs alone: lines 155-157, then the coordination
\* on the marker that holds the line written by its own prepare
commit(sh) ==
    LET b == 1
        r == ReadState(EchoAppend(NoFile, <<b>>), b)
    IN  [sh EXCEPT !.fpm_reloaded = (sh.UPDATED_FPM = 1),
                   !.apache_reloaded =
                       (r.is_last = 1 /\ NeedsReload(sh.UPDATED_APACHE = 1, r.state))]

Removed(script) == {script[i].path : i \in {j \in DOMAIN script : script[j].op = "rm"}}

Run(kind, w, script, sh, repeat) ==
    [kind |-> kind, w |-> w, appended |-> Len(script), wrote |-> sh.wrote, UPDATED_FPM |-> sh.UPDATED_FPM,
     UPDATED_APACHE |-> sh.UPDATED_APACHE, fpm_reloaded |-> sh.fpm_reloaded,
     apache_reloaded |-> sh.apache_reloaded, repeat |-> repeat]

NoRun == [kind |-> "none"]

InitSave ==
    /\ MERGE \in BOOLEAN
    /\ sharedPaths \in BOOLEAN
    /\ \E acc \in 1 .. NumAccounts : \E m \in BOOLEAN :
          webapp = [w \in Webapps |->
                      [exists |-> TRUE, account |-> IF w = 1 THEN 1 ELSE acc,
                       mode |-> "fpm", version |-> 1, opt |-> 0, mounted |-> m]]
    /\ files = {}
    /\ lastRun = NoRun
    /\ dirty = FALSE
    /\ edits = 0
    /\ NoClose
    /\ NoMemo
    /\ NoSaas
    /\ NoMail
    /\ restart_apache2 = NoFile
    /\ restart_apache2_locked = NoFile
    /\ pc = <<>>
    /\ state = <<>>
    /\ is_last = <<>>
    /\ UPDATED_APACHE = <<>>
    /\ reloads = 0
    /\ sawLast = {}
    /\ early = FALSE
    /\ bill = <<>>
    /\ transactions = <<>>
    /\ cached = ""
    /\ result = <<>>

\* the administrator changes the type or the options of a webapp
EditWebapp(w) ==
    /\ webapp[w].exists
    /\ edits < MaxEdits
    /\ edits' = edits + 1
    /\ \E m \in Modes : \E v \in PHP_VERSIONS : \E o \in 0 .. MaxOpt :
          /\ <<m, v, o>> # <<webapp[w].mode, webapp[w].version, webapp[w].opt>>
          /\ webapp' = [webapp EXCEPT ![w].mode = m, ![w].version = v, ![w].opt = o]
    /\ dirty' = TRUE
    /\ UNCHANGED <<coordVars, billVars, closeVars, memoVars, saasVars, mailVars, MERGE, sharedPaths, files, lastRun>>

\* prepare, save(webapp) and commit are generated and the script is run
RunSave(w) ==
    /\ webapp[w].exists
    /\ ~save_raises(w)
    /\ LET sh == commit(Exec(Shell(files), save(w)))
           repeat == lastRun.kind = "save" /\ lastRun.w = w /\ ~dirty
       IN  /\ files' = sh.files
           /\ lastRun' = Run("save", w, save(w), sh, repeat)
    /\ dirty' = FALSE
    /\ UNCHANGED <<coordVars, billVars, closeVars, memoVars, saasVars, mailVars, MERGE, sharedPaths, webapp, edits>>

\* save raises TypeError: the script is not run
RunSaveRaises(w) ==
    /\ webapp[w].exists
    /\ save_raises(w)
    /\ lastRun' = Run("save_raised", w, save(w), Shell(files), FALSE)
    /\ UNCHANGED <<coordVars, billVars, closeVars, memoVars, saasVars, mailVars, MERGE, sharedPaths, webapp, files, dirty, edits>>

\* the webapp is deleted; prepare, delete(webapp) and commit are generated
\* and the script is run
RunDelete(w) ==
    /\ webapp[w].exists
    /\ LET sh == commit(Exec(Shell(files), delete(w)))
       IN  /\ files' = sh.files
           /\ lastRun' = Run("delete", w, delete(w), sh, FALSE)
    /\ webapp' = [webapp EXCEPT ![w].exists = FALSE]
    /\ dirty' = FALSE
    /\ UNCHANGED <<coordVars, billVars, closeVars, memoVars, saasVars, mailVars, MERGE, sharedPaths, edits>>

NextSave ==
    \E w \in Webapps :
        \/ EditWebapp(w)
        \/ RunSave(w)
        \/ RunSaveRaises(w)
        \/ RunDelete(w)

SpecSave == InitSave /\ [][NextSave]_vars

(***************************************************************************)
(* Claims about save and delete                                            *)
(***************************************************************************)
OnHost == {e[1] : e \in files}

\* the configuration files of webapp w for execution mode m at version v
VariantPaths(w, m, v) ==
    IF m = "fpm" THEN {fpm_path(w, v)}
    ELSE IF m = "fcgid" THEN {wrapper_path(w, v), cmd_options_path(w, v)}
    ELSE {}

\* the configuration files the save of webapp o writes
ActivePaths(o) ==
    IF webapp[o].mode = "fpm" THEN {fpm_path(o, webapp[o].version)}
    ELSE IF webapp[o].mode = "fcgid"
    THEN {wrapper_path(o, webapp[o].version)} \cup
         (IF cmd_options(o) # <<>> THEN {cmd_options_path(o, webapp[o].version)} ELSE {})
    ELSE {}

UsedByOther(w, path) ==
    \E o \in Webapps \ {w} : webapp[o].exists /\ path \in ActivePaths(o)

\* the removals of the cleanup phase of save (lines 43-45)
CleanupRemoved(w) == Removed(delete_fcgid(w, TRUE) \o delete_fpm(w, TRUE))

\* the removals emitted by the last script: all of delete, the cleanup of save
LastRemoved ==
    IF lastRun.kind = "delete" THEN Removed(delete(lastRun.w))
    ELSE CleanupRemoved(lastRun.w)

SharesVariant(w, o) ==
    /\ o # w
    /\ webapp[o].exists
    /\ sharedPaths
    /\ webapp[o].account = webapp[w].account
    /\ webapp[o].version = webapp[w].version

\* C5: running the script of save(webapp) a second time, webapp and host
\* unchanged, writes no configuration file, leaves UPDATED_FPM and
\* UPDATED_APACHE unset, and commit reloads neither the FPM pool nor Apache.
C5_SaveIdempotent ==
    (lastRun.kind = "save" /\ lastRun.repeat) =>
        /\ lastRun.wrote = {}
        /\ lastRun.UPDATED_FPM = 0
        /\ lastRun.UPDATED_APACHE = 0
        /\ ~lastRun.fpm_reloaded
        /\ ~lastRun.apache_reloaded

\* a second run of save for a mounted FCGID webapp with cmd options, the
\* case in which the first run sets UPDATED_APACHE
C5_Witness ==
    /\ lastRun.kind = "save"
    /\ lastRun.repeat
    /\ ~dirty
    /\ webapp[lastRun.w].mode = "fcgid"
    /\ webapp[lastRun.w].opt # 0
    /\ webapp[lastRun.w].mounted
    /\ wrapper_path(lastRun.w, webapp[lastRun.w].version) \in OnHost
    /\ cmd_options_path(lastRun.w, webapp[lastRun.w].version) \in OnHost

\* C6: after save(webapp) with active variant (M, V) the configuration of
\* every other (mode, version) variant of the webapp is removed from the
\* host, the old mode's configuration at version V included.
C6_SaveKeepsOnlyActive ==
    (lastRun.kind = "save" /\ ~dirty) =>
        \A m \in {"fpm", "fcgid"} : \A v \in PHP_VERSIONS :
            <<m, v>> # <<webapp[lastRun.w].mode, webapp[lastRun.w].version>> =>
                \A path \in VariantPaths(lastRun.w, m, v) :
                    ~UsedByOther(lastRun.w, path) => path \notin OnHost

\* C7: delete(webapp) emits removals for every version and both execution
\* modes, so that after delete no configuration file of the webapp remains
\* on the host, files used by siblings excepted.
C7_DeleteRemovesAll ==
    (lastRun.kind = "delete" /\ ~dirty) =>
        \A m \in {"fpm", "fcgid"} : \A v \in PHP_VERSIONS :
            \A path \in VariantPaths(lastRun.w, m, v) :
                ~UsedByOther(lastRun.w, path) =>
                    (path \in LastRemoved /\ path \notin OnHost)

MaxLines == 1

MaxTx == 1

OPEN == ""

PAYMENT_STATES == {OPEN, "CREATED", "PROCESSED", "AMENDED", "PAID", "INCOMPLETE",
                   "EXECUTED", "BAD_DEBT"}

TYPES == {"INVOICE", "AMENDMENTINVOICE", "FEE", "AMENDMENTFEE", "PROFORMA"}

\* the states a transaction is given by the payments application
TxStates == {"SECURED", "WAITTING_PROCESSING", "WAITTING_EXECUTION", "EXECUTED",
             "REJECTED", "WAITTING_CONFIRMATION"}

\* the states Bill.payment_state knows
KnownStates == {"SECURED", "WAITTING_PROCESSING", "WAITTING_EXECUTION", "EXECUTED",
                "REJECTED"}

Subtotals == {-10000, 10000}

Taxes == {2100}

SublineSets == {<<>>, << -1000 >>}

TxAmounts == {6000, -6000}

\* the lines of the bills of SpecBill have no sublines; SpecTotal has them
LineSet == [subtotal : Subtotals, tax : Taxes, sublines : {<<>>}]

RECURSIVE SeqsUpTo(_, _)
SeqsUpTo(S, n) ==
    IF n = 0 THEN {<<>>}
    ELSE LET shorter == SeqsUpTo(S, n - 1) IN
         shorter \cup {Append(q, x) : q \in shorter, x \in S}

RECURSIVE SumSeq(_)
SumSeq(q) == IF q = <<>> THEN 0 ELSE Head(q) + SumSeq(Tail(q))

\* round(x, 2) of a Decimal given in units of 1/unit hundredths: half to even
Round2(n, unit) ==
    LET q == n \div unit
        r == n % unit
    IN  IF 2 * r < unit THEN q
        ELSE IF 2 * r > unit THEN q + 1
        ELSE IF q % 2 = 0 THEN q ELSE q + 1

\* lines 359-362: the aggregate over the lines, in units of 1/10000 of a
\* hundredth
RECURSIVE SumTotals(_)
SumTotals(lines) ==
    IF lines = <<>> THEN 0
    ELSE (Head(lines).subtotal + SumSeq(Head(lines).sublines)) * (10000 + Head(lines).tax)
         + SumTotals(Tail(lines))

\* the total of a line without its sublines
BillLine_compute_total_without_sublines(line) == Round2(line.subtotal, 1)

\* BillLine.compute_total, lines 433-442: the line with its sublines
BillLine_compute_total(line) == Round2(line.subtotal + SumSeq(line.sublines), 1)

\* lines 353-356: the loop over the prefetched lines
RECURSIVE SumPrefetched(_)
SumPrefetched(lines) ==
    IF lines = <<>> THEN 0
    ELSE BillLine_compute_total(Head(lines)) * (10000 + Head(lines).tax)
         + SumPrefetched(Tail(lines))

\* the total with every line rounded before the lines are added
RECURSIVE SumRoundedLines(_)
SumRoundedLines(lines) ==
    IF lines = <<>> THEN 0
    ELSE Round2(BillLine_compute_total(Head(lines)) * (10000 + Head(lines).tax), 10000)
         + SumRoundedLines(Tail(lines))

compute_total_rounded_per_line(b) == SumRoundedLines(b.lines)

\* Bill.compute_total, lines 351-362: the loop when the lines are
\* prefetched, else the aggregate of the database, rounded once
compute_total(b) ==
    IF b.prefetched
    THEN Round2(SumPrefetched(b.lines), 10000)
    ELSE Round2(SumTotals(b.lines), 10000)

get_type(b) == b.type

\* line 145 without the test of the pro-forma type
reports_open_no_proforma(b) == b.is_open

\* line 145
reports_open(b) == b.is_open \/ get_type(b) = "PROFORMA"

NoLedger == [secured |-> 0, pending |-> 0, created |-> FALSE, processed |-> FALSE,
             executed |-> FALSE, rejected |-> FALSE, raised |-> FALSE]

\* the loop body with an executed transaction left out of pending
Accumulate_executed_not_pending(acc, t) ==
    IF t.state = "SECURED"
    THEN [acc EXCEPT !.secured = @ + t.amount, !.pending = @ + t.amount]
    ELSE IF t.state = "WAITTING_PROCESSING"
    THEN [acc EXCEPT !.pending = @ + t.amount, !.created = TRUE]
    ELSE IF t.state = "WAITTING_EXECUTION"
    THEN [acc EXCEPT !.pending = @ + t.amount, !.processed = TRUE]
    ELSE IF t.state = "EXECUTED"
    THEN [acc EXCEPT !.executed = TRUE]
    ELSE IF t.state = "REJECTED"
    THEN [acc EXCEPT !.rejected = TRUE]
    ELSE [acc EXCEPT !.raised = TRUE]

\* lines 154-169: the body of the loop over the transactions
Accumulate(acc, t) ==
    IF t.state = "SECURED"
    THEN [acc EXCEPT !.secured = @ + t.amount, !.pending = @ + t.amount]
    ELSE IF t.state = "WAITTING_PROCESSING"
    THEN [acc EXCEPT !.pending = @ + t.amount, !.created = TRUE]
    ELSE IF t.state = "WAITTING_EXECUTION"
    THEN [acc EXCEPT !.pending = @ + t.amount, !.processed = TRUE]
    ELSE IF t.state = "EXECUTED"
    THEN [acc EXCEPT !.pending = @ + t.amount, !.executed = TRUE]
    ELSE IF t.state = "REJECTED"
    THEN [acc EXCEPT !.rejected = TRUE]
    ELSE [acc EXCEPT !.raised = TRUE]

\* lines 153-169: the loop; raise TypeError ends it
RECURSIVE Ledger(_, _)
Ledger(txs, acc) ==
    IF txs = <<>> \/ acc.raised THEN acc
    ELSE Ledger(Tail(txs), Accumulate(acc, Head(txs)))

\* the decision without the test of executed, lines 185-186
Decide_executed_is_bad_debt(acc, total) ==
    LET ongoing == (acc.secured # 0 \/ acc.created \/ acc.processed \/ acc.executed)
        first ==
            IF total >= 0
            THEN (IF acc.secured >= total THEN "PAID"
                  ELSE IF ongoing /\ acc.pending < total THEN "INCOMPLETE" ELSE "next")
            ELSE (IF acc.secured <= total THEN "PAID"
                  ELSE IF ongoing /\ acc.pending > total THEN "INCOMPLETE" ELSE "next")
    IN  IF first # "next" THEN first
        ELSE IF acc.created THEN "CREATED"
        ELSE IF acc.processed THEN "PROCESSED"
        ELSE "BAD_DEBT"

\* lines 170-188
Decide(acc, total) ==
    LET ongoing == (acc.secured # 0 \/ acc.created \/ acc.processed \/ acc.executed)
        first ==
            IF total >= 0
            THEN (IF acc.secured >= total THEN "PAID"
                  ELSE IF ongoing /\ acc.pending < total THEN "INCOMPLETE" ELSE "next")
            ELSE (IF acc.secured <= total THEN "PAID"
                  ELSE IF ongoing /\ acc.pending > total THEN "INCOMPLETE" ELSE "next")
    IN  IF first # "next" THEN first
        ELSE IF acc.created THEN "CREATED"
        ELSE IF acc.processed THEN "PROCESSED"
        ELSE IF acc.executed THEN "EXECUTED"
        ELSE "BAD_DEBT"

\* lines 144-188: the value payment_state computes, or TypeError
payment_state(b, txs) ==
    IF reports_open(b) THEN OPEN
    ELSE LET acc == Ledger(txs, NoLedger) IN
         IF acc.raised THEN "TypeError" ELSE Decide(acc, compute_total(b))

\* settings.BILLS_NUMBER_LENGTH, line 237: the width the sequence number is
\* padded to with zeros.  The model takes a width of one digit, so that the
\* sequence passes the width after nine bills.
BILLS_NUMBER_LENGTH == 1

YearZero == 2015

\* a number is the string prefix + year + digits, kept as its three parts;
\* the blank number has no digits
NoNumber == [prefix |-> [O |-> FALSE, setting |-> ""], year |-> 0, digits |-> <<>>]

\* lines 225-228: the prefix the settings give the type of bill, behind an
\* O for an open bill.  The prefixes of the types are taken to differ in
\* their first character and not to begin with O.
prefix(bill_type, is_open) == [O |-> is_open, setting |-> bill_type]

\* str(number), line 238: the decimal digits
RECURSIVE str(_)
str(n) == IF n < 10 THEN <<n>> ELSE Append(str(n \div 10), n % 10)

\* int(...), line 234
RECURSIVE int(_)
int(digits) ==
    IF digits = <<>> THEN 0
    ELSE 10 * int(SubSeq(digits, 1, Len(digits) - 1)) + digits[Len(digits)]

\* lines 238-239: (number_length - len(str(number))) * '0' + str(number)
zeros(n) == [i \in 1 .. n |-> 0]

padded(number) ==
    LET digits == str(number) IN
    IF BILLS_NUMBER_LENGTH > Len(digits)
    THEN zeros(BILLS_NUMBER_LENGTH - Len(digits)) \o digits
    ELSE digits

\* the order of strings of digits: character by character, a proper prefix
\* first
RECURSIVE StringLess(_, _)
StringLess(a, b) ==
    IF b = <<>> THEN FALSE
    ELSE IF a = <<>> THEN TRUE
    ELSE IF Head(a) # Head(b) THEN Head(a) < Head(b)
    ELSE StringLess(Tail(a), Tail(b))

\* order_by('number'), line 230, for two numbers with the same prefix: the
\* four digits of the year, then the digits of the sequence
NumberLess(m, n) ==
    \/ m.year < n.year
    \/ m.year = n.year /\ StringLess(m.digits, n.digits)

\* filter(number__regex=r'^%s[1-9]+' % prefix), line 229
matches(n, pfx) == n # NoNumber /\ n.prefix = pfx

\* the numbers of the given bills counted by their digits alone: the
\* greatest one
get_number_by_value(b, numbers, now) ==
    LET pfx == prefix(b.type, b.is_open)
        bills == {n \in numbers : matches(n, pfx)}
        values == {int(n.digits) : n \in bills}
        last_number == IF bills = {} THEN 0
                       ELSE CHOOSE v \in values : \A w \in values : w <= v
    IN  [prefix |-> pfx, year |-> now, digits |-> padded(last_number + 1)]

\* Bill.get_number, lines 220-240, given the number column of the table
\* and the year of timezone.now()
get_number(b, numbers, now) ==
    LET pfx == prefix(get_type(b), b.is_open)
        bills == {n \in numbers : matches(n, pfx)}
        last_number ==
            IF bills = {} THEN 0
            ELSE int((CHOOSE m \in bills : \A n \in bills : ~NumberLess(m, n)).digits)
        number == last_number + 1
    IN  [prefix |-> pfx, year |-> now, digits |-> padded(number)]

\* a due date that ignores the payment source
get_due_date_always_month(payment) == "month"

\* lines 242-246
get_due_date(payment) == IF payment = "source" THEN "delta" ELSE "month"

NotCached == "not cached"

NoResult == [op |-> "none", value |-> "", fresh |-> FALSE]

NewBill(type, lines, due_on) ==
    LET unsaved == [type |-> type, is_open |-> TRUE, is_sent |-> FALSE,
                    closed_on |-> FALSE, due_on |-> due_on, html |-> FALSE,
                    lines |-> lines, prefetched |-> FALSE]
    IN  \* Bill.save, lines 315-320: a bill without number is given one
        [type |-> type, is_open |-> TRUE, is_sent |-> FALSE, closed_on |-> FALSE,
         due_on |-> due_on, html |-> FALSE, lines |-> lines, prefetched |-> FALSE,
         number |-> get_number(unsaved, {}, YearZero)]

InitBill ==
    /\ \E type \in TYPES : \E lines \in SeqsUpTo(LineSet, MaxLines) :
       \E due_on \in {"", "given"} :
          bill = NewBill(type, lines, due_on)
    /\ transactions = <<>>
    /\ cached = NotCached
    /\ result = NoResult
    /\ restart_apache2 = NoFile
    /\ restart_apache2_locked = NoFile
    /\ pc = <<>>
    /\ state = <<>>
    /\ is_last = <<>>
    /\ UPDATED_APACHE = <<>>
    /\ reloads = 0
    /\ sawLast = {}
    /\ early = FALSE
    /\ MERGE = FALSE
    /\ sharedPaths = FALSE
    /\ webapp = <<>>
    /\ files = <<>>
    /\ lastRun = <<>>
    /\ dirty = FALSE
    /\ edits = 0
    /\ NoClose
    /\ NoMemo
    /\ NoSaas
    /\ NoMail

\* close without the test of is_open
raises_not_open_never(b) == FALSE

\* lines 249-250: close raises TypeError for a bill that is not open
raises_not_open(b) == ~b.is_open

\* Bill.close on an open bill, lines 248-265
Close(payment) ==
    /\ ~raises_not_open(bill)
    /\ LET total == compute_total(bill)
           closed == [bill EXCEPT
                        !.due_on = IF @ = "" THEN get_due_date(payment) ELSE @,
                        !.closed_on = TRUE,
                        !.is_open = FALSE,
                        !.is_sent = FALSE]
       IN  /\ transactions' =
                 IF get_type(bill) # "PROFORMA"
                 THEN Append(transactions,
                             [state |-> "WAITTING_PROCESSING", amount |-> total])
                 ELSE transactions
           /\ bill' = [closed EXCEPT !.number = get_number(closed, {bill.number}, YearZero),
                                     !.html = TRUE]
    /\ result' = [op |-> "close", value |-> payment, fresh |-> FALSE]
    /\ UNCHANGED <<coordVars, saveVars, closeVars, memoVars, saasVars, mailVars, cached>>

\* Bill.close on a closed bill raises TypeError, lines 249-250
CloseRaises ==
    /\ raises_not_open(bill)
    /\ result' = [op |-> "close", value |-> "TypeError", fresh |-> FALSE]
    /\ UNCHANGED <<coordVars, saveVars, closeVars, memoVars, saasVars, mailVars, bill, transactions, cached>>

\* Bill.send, lines 267-282: is_sent is set and saved
Send ==
    /\ ~bill.is_sent
    /\ bill' = [bill EXCEPT !.is_sent = TRUE]
    /\ result' = [op |-> "send", value |-> "", fresh |-> FALSE]
    /\ UNCHANGED <<coordVars, saveVars, closeVars, memoVars, saasVars, mailVars, transactions, cached>>

\* the payments application adds a transaction to the bill
AddTransaction(amount) ==
    /\ Len(transactions) < MaxTx
    /\ transactions' = Append(transactions,
                              [state |-> "WAITTING_PROCESSING", amount |-> amount])
    /\ result' = NoResult
    /\ UNCHANGED <<coordVars, saveVars, closeVars, memoVars, saasVars, mailVars, bill, cached>>

\* the payments application changes the state of a transaction
SetState(i, s) ==
    /\ i \in DOMAIN transactions
    /\ transactions[i].state # s
    /\ transactions' = [transactions EXCEPT ![i].state = s]
    /\ result' = NoResult
    /\ UNCHANGED <<coordVars, saveVars, closeVars, memoVars, saasVars, mailVars, bill, cached>>

\* bill.payment_state is read: the cached_property computes the value on
\* the first access of the instance and keeps it
ReadPaymentState ==
    /\ IF cached # NotCached
       THEN /\ result' = [op |-> "payment_state", value |-> cached, fresh |-> FALSE]
            /\ UNCHANGED cached
       ELSE LET v == payment_state(bill, transactions) IN
            /\ result' = [op |-> "payment_state", value |-> v, fresh |-> TRUE]
            /\ cached' = IF v = "TypeError" THEN NotCached ELSE v
    /\ UNCHANGED <<coordVars, saveVars, closeVars, memoVars, saasVars, mailVars, bill, transactions>>

\* the bill is loaded from the database again: a new instance
LoadAgain ==
    /\ cached # NotCached
    /\ cached' = NotCached
    /\ result' = NoResult
    /\ UNCHANGED <<coordVars, saveVars, closeVars, memoVars, saasVars, mailVars, bill, transactions>>

NextBill ==
    \/ \E payment \in {"none", "source"} : Close(payment)
    \/ CloseRaises
    \/ Send
    \/ \E amount \in TxAmounts : AddTransaction(amount)
    \/ \E i \in 1 .. MaxTx : \E s \in TxStates : SetState(i, s)
    \/ ReadPaymentState
    \/ LoadAgain

SpecBill == InitBill /\ [][NextBill]_vars

(***************************************************************************)
(* Claims about payment_state                                              *)
(***************************************************************************)
RECURSIVE SumAmounts(_, _)
SumAmounts(txs, states) ==
    IF txs = <<>> THEN 0
    ELSE (IF Head(txs).state \in states THEN Head(txs).amount ELSE 0)
         + SumAmounts(Tail(txs), states)

HasState(txs, s) == \E i \in DOMAIN txs : txs[i].state = s

AllKnown(txs) == \A i \in DOMAIN txs : txs[i].state \in KnownStates

\* the decision table of the specification, evaluated top to bottom
DecisionTable(total, secured, pending, created, processed, executed) ==
    LET ongoing == secured # 0 \/ created \/ processed \/ executed IN
    IF total >= 0 /\ secured >= total THEN "PAID"
    ELSE IF total >= 0 /\ ongoing /\ pending < total THEN "INCOMPLETE"
    ELSE IF total < 0 /\ secured <= total THEN "PAID"
    ELSE IF total < 0 /\ ongoing /\ pending > total THEN "INCOMPLETE"
    ELSE IF created THEN "CREATED"
    ELSE IF processed THEN "PROCESSED"
    ELSE IF executed THEN "EXECUTED"
    ELSE "BAD_DEBT"

TableFor(pendingStates) ==
    DecisionTable(compute_total(bill),
                  SumAmounts(transactions, {"SECURED"}),
                  SumAmounts(transactions, pendingStates),
                  HasState(transactions, "WAITTING_PROCESSING"),
                  HasState(transactions, "WAITTING_EXECUTION"),
                  HasState(transactions, "EXECUTED"))

\* payment_state has just been computed for a closed bill that is not
\* pro forma and whose transactions all have known states
ComputedForClosed ==
    /\ result.op = "payment_state"
    /\ result.fresh
    /\ ~bill.is_open
    /\ get_type(bill) # "PROFORMA"
    /\ AllKnown(transactions)

\* C9 as stated: payment_state equals the decision table with pending the
\* sum of the SECURED, WAITING_PROCESSING and WAITING_EXECUTION amounts.
C9_TablePendingWaiting ==
    ComputedForClosed =>
        result.value = TableFor({"SECURED", "WAITTING_PROCESSING", "WAITTING_EXECUTION"})

\* C9 amended: the value payment_state computes equals the decision table
\* with pending the sum of the SECURED, WAITING_PROCESSING,
\* WAITING_EXECUTION and EXECUTED amounts.
C9_TablePendingExecuted ==
    ComputedForClosed =>
        result.value = TableFor({"SECURED", "WAITTING_PROCESSING", "WAITTING_EXECUTION",
                                 "EXECUTED"})

\* payment_state was computed for a closed invoice whose ledger holds an
\* executed transaction covering the total
C9_Witness ==
    /\ ComputedForClosed
    /\ compute_total(bill) > 0
    /\ HasState(transactions, "EXECUTED")
    /\ SumAmounts(transactions, {"EXECUTED"}) >= compute_total(bill)
    /\ result.value = "EXECUTED"

\* the value the property payment_state returns now
PaymentStateNow ==
    IF cached # NotCached THEN cached ELSE payment_state(bill, transactions)

\* C10: a pro-forma bill and a bill with is_open true report payment_state
\* OPEN, after any sequence of close calls and ledger changes.
C10_OpenAndProformaReportOpen ==
    (bill.is_open \/ get_type(bill) = "PROFORMA") => PaymentStateNow = OPEN

\* a pro-forma bill was closed, has a transaction in the ledger, and its
\* payment_state was read after the close
C10_Witness ==
    /\ get_type(bill) = "PROFORMA"
    /\ ~bill.is_open
    /\ transactions # <<>>
    /\ result.op = "payment_state"
    /\ result.fresh
    /\ result.value = OPEN

(***************************************************************************)
(* Claims about the errors of payment_state                                *)
(***************************************************************************)
\* payment_state has just been computed for a closed bill that is not pro
\* forma
ComputedForClosedAnyLedger ==
    /\ result.op = "payment_state"
    /\ result.fresh
    /\ ~bill.is_open
    /\ get_type(bill) # "PROFORMA"

\* C11: payment_state of a closed bill that is not pro forma raises exactly
\* when a transaction has a state outside the fixed set of six states, so
\* it returns a payment state for a ledger with a transaction in
\* WAITING_CONFIRMATION.
C11_RaisesOnlyOutsideFixedSet ==
    ComputedForClosedAnyLedger =>
        (result.value = "TypeError"
            <=> \E i \in DOMAIN transactions : transactions[i].state \notin TxStates)

\* C13: close on a bill that is already closed raises an error and changes
\* nothing: no transaction is created and number, closed_on, due_on,
\* is_sent and html keep their values.
C13_CloseOnClosedChangesNothing ==
    [][(~bill.is_open /\ result'.op = "close") =>
          /\ result'.value = "TypeError"
          /\ transactions' = transactions
          /\ bill'.number = bill.number
          /\ bill'.closed_on = bill.closed_on
          /\ bill'.due_on = bill.due_on
          /\ bill'.is_sent = bill.is_sent
          /\ bill'.html = bill.html]_vars

\* a closed bill that was sent and has its transaction in the ledger was
\* closed again, and the call raised
C13_Witness ==
    /\ result.op = "close"
    /\ result.value = "TypeError"
    /\ ~bill.is_open
    /\ bill.is_sent
    /\ transactions # <<>>

(***************************************************************************)
(* SpecTotal: compute_total of a bill over its lines and sublines, by the  *)
(* aggregate of the database and by the loop over prefetched lines.        *)
(***************************************************************************)
MaxTotalLines == 2

TotalSubtotals == {100, 10000, -10050}

TotalTaxes == {550, 2100}

TotalLineSet == [subtotal : TotalSubtotals, tax : TotalTaxes, sublines : SublineSets]

InitTotal ==
    /\ \E lines \in SeqsUpTo(TotalLineSet, MaxTotalLines) :
          bill = [type |-> "INVOICE", lines |-> lines, prefetched |-> FALSE]
    /\ transactions = <<>>
    /\ cached = NotCached
    /\ result = NoResult
    /\ restart_apache2 = NoFile
    /\ restart_apache2_locked = NoFile
    /\ pc = <<>>
    /\ state = <<>>
    /\ is_last = <<>>
    /\ UPDATED_APACHE = <<>>
    /\ reloads = 0
    /\ sawLast = {}
    /\ early = FALSE
    /\ MERGE = FALSE
    /\ sharedPaths = FALSE
    /\ webapp = <<>>
    /\ files = <<>>
    /\ lastRun = <<>>
    /\ dirty = FALSE
    /\ edits = 0
    /\ NoClose
    /\ NoMemo
    /\ NoSaas
    /\ NoMail

\* the bill is loaded with prefetch_related('lines'), line 352
Prefetch ==
    /\ ~bill.prefetched
    /\ bill' = [bill EXCEPT !.prefetched = TRUE]
    /\ result' = NoResult
    /\ UNCHANGED <<coordVars, saveVars, closeVars, memoVars, saasVars, mailVars, transactions, cached>>

\* bill.compute_total() computes its value, lines 351-362
ComputeTotal ==
    /\ result' = [op |-> "compute_total", value |-> compute_total(bill), fresh |-> TRUE]
    /\ UNCHANGED <<coordVars, saveVars, closeVars, memoVars, saasVars, mailVars, bill, transactions, cached>>

\* the base of a line: F('subtotal') + Sum(Coalesce('sublines__total', 0))
base_of(line) == line.subtotal + SumSeq(line.sublines)

RECURSIVE SumBases(_)
SumBases(lines) ==
    IF lines = <<>> THEN 0 ELSE base_of(Head(lines)) + SumBases(Tail(lines))

\* the sum of base * tax over the lines, in units of 1/10000 of a hundredth
RECURSIVE SumTaxes(_)
SumTaxes(lines) ==
    IF lines = <<>> THEN 0
    ELSE base_of(Head(lines)) * Head(lines).tax + SumTaxes(Tail(lines))

\* Bill.compute_subtotals, lines 322-334: for every tax of the lines, the
\* sum of the bases of its lines and the tax on that sum, rounded
compute_subtotals(b) ==
    [tax \in {b.lines[i].tax : i \in DOMAIN b.lines} |->
        LET subtotal == SumBases(SelectSeq(b.lines, LAMBDA line : line.tax = tax))
        IN  <<subtotal, Round2(tax * subtotal, 10000)>>]

\* Bill.compute_base, lines 336-341
compute_base(b) == Round2(SumBases(b.lines), 1)

\* Bill.compute_tax, lines 343-348
compute_tax(b) == Round2(SumTaxes(b.lines), 10000)

\* bill.compute_subtotals() computes its value
ComputeSubtotals ==
    /\ result' = [op |-> "compute_subtotals", value |-> compute_subtotals(bill),
                  fresh |-> TRUE]
    /\ UNCHANGED <<coordVars, saveVars, closeVars, memoVars, saasVars, mailVars, bill, transactions, cached>>

\* bill.compute_base() computes its value
ComputeBase ==
    /\ result' = [op |-> "compute_base", value |-> compute_base(bill), fresh |-> TRUE]
    /\ UNCHANGED <<coordVars, saveVars, closeVars, memoVars, saasVars, mailVars, bill, transactions, cached>>

\* bill.compute_tax() computes its value
ComputeTax ==
    /\ result' = [op |-> "compute_tax", value |-> compute_tax(bill), fresh |-> TRUE]
    /\ UNCHANGED <<coordVars, saveVars, closeVars, memoVars, saasVars, mailVars, bill, transactions, cached>>

NextTotal ==
    \/ Prefetch
    \/ ComputeTotal
    \/ ComputeSubtotals
    \/ ComputeBase
    \/ ComputeTax

SpecTotal == InitTotal /\ [][NextTotal]_vars

(***************************************************************************)
(* Claims about compute_total                                              *)
(***************************************************************************)
\* the sum over the lines of (subtotal + sublines) * (1 + tax / 100)
RECURSIVE TaxedSum(_, _)
TaxedSum(lines, n) ==
    IF n = 0 THEN 0
    ELSE LET line == lines[n] IN
         TaxedSum(lines, n - 1)
         + (line.subtotal + SumSeq(line.sublines)) * 10000
         + (line.subtotal + SumSeq(line.sublines)) * line.tax

NumBills == 2

NumProcs == 2

NumYears == 2

MaxClosedBefore == 9

MaxAttempts == 2

Procs == 1 .. NumProcs

CloseTypes == {"INVOICE", "AMENDMENTINVOICE", "PROFORMA"}

\* AMEND_MAP.values(), lines 92-95
AmendmentTypes == {"AMENDMENTINVOICE", "AMENDMENTFEE"}

NoInst == [pk |-> 0, pc |-> "idle"]

\* the columns of a row, lines 99-111
Row(b) == [type |-> b.type, amend_of |-> b.amend_of, is_open |-> b.is_open,
           is_sent |-> b.is_sent, closed_on |-> b.closed_on, due_on |-> b.due_on,
           number |-> b.number, html |-> b.html]

\* the instance a query returns for a row
Instance(pk, row) ==
    [pk |-> pk, pc |-> "idle", transaction |-> 0,
     type |-> row.type, amend_of |-> row.amend_of,
     is_open |-> row.is_open, is_sent |-> row.is_sent, closed_on |-> row.closed_on,
     due_on |-> row.due_on, number |-> row.number, html |-> row.html]

\* the number column of the table, without the row of the given pk
NumbersBut(pk) ==
    {objects[i].number : i \in DOMAIN objects \ {pk}} \cup archive

\* number is unique, line 99: the save of a number another row holds raises
\* IntegrityError
IntegrityError(b) == b.number \in NumbersBut(b.pk)

\* Bill.save, lines 315-320: a blank number is replaced
with_number(b) ==
    IF b.number = NoNumber
    THEN [b EXCEPT !.number = get_number(b, NumbersBut(0), year)]
    ELSE b

InitClose ==
    /\ objects = <<>>
    /\ \E k \in {0, MaxClosedBefore} :
          archive = {[prefix |-> prefix("INVOICE", FALSE), year |-> YearZero,
                      digits |-> padded(i)] : i \in 1 .. k}
    /\ inst = [p \in Procs |-> NoInst]
    /\ year = YearZero
    /\ attempts = 0
    /\ transactions = <<>>
    /\ bill = <<>>
    /\ cached = NotCached
    /\ result = NoResult
    /\ restart_apache2 = NoFile
    /\ restart_apache2_locked = NoFile
    /\ pc = <<>>
    /\ state = <<>>
    /\ is_last = <<>>
    /\ UPDATED_APACHE = <<>>
    /\ reloads = 0
    /\ sawLast = {}
    /\ early = FALSE
    /\ MERGE = FALSE
    /\ sharedPaths = FALSE
    /\ webapp = <<>>
    /\ files = <<>>
    /\ lastRun = <<>>
    /\ dirty = FALSE
    /\ edits = 0
    /\ NoMemo
    /\ NoSaas
    /\ NoMail

Others == <<coordVars, saveVars, bill, cached, memoVars, saasVars, mailVars>>

\* a process makes a bill and saves it, Bill.save lines 315-320
Create(p, type, amend_of) ==
    /\ inst[p].pc = "idle"
    /\ Len(objects) < NumBills
    /\ amend_of <= Len(objects)
    /\ LET pk == Len(objects) + 1
           new == [pk |-> pk, pc |-> "idle", transaction |-> 0,
                   type |-> type, amend_of |-> amend_of,
                   is_open |-> TRUE, is_sent |-> FALSE, closed_on |-> FALSE,
                   due_on |-> "", number |-> NoNumber, html |-> FALSE]
           saved == with_number(new)
       IN  IF IntegrityError(saved)
           THEN /\ result' = [op |-> "save", p |-> p, value |-> "IntegrityError"]
                /\ inst' = [inst EXCEPT ![p] = NoInst]
                /\ UNCHANGED objects
           ELSE /\ result' = [op |-> "save", p |-> p, value |-> "saved"]
                /\ inst' = [inst EXCEPT ![p] = saved]
                /\ objects' = Append(objects, Row(saved))
    /\ UNCHANGED <<Others, archive, year, attempts, transactions>>

\* a process loads a bill from the table
Load(p, pk) ==
    /\ inst[p].pc = "idle"
    /\ pk \in DOMAIN objects
    /\ inst' = [inst EXCEPT ![p] = Instance(pk, objects[pk])]
    /\ result' = [op |-> "load", p |-> p, value |-> ""]
    /\ UNCHANGED <<Others, objects, archive, year, attempts, transactions>>

\* Bill.close, lines 248-261: the test of is_open, the due date, the
\* transaction, and the fields set on the instance
CloseStart(p, payment) ==
    /\ inst[p].pk # 0
    /\ inst[p].pc = "idle"
    /\ attempts < MaxAttempts
    /\ attempts' = attempts + 1
    /\ IF raises_not_open(inst[p])
       THEN /\ result' = [op |-> "close", p |-> p, value |-> "TypeError"]
            /\ UNCHANGED <<inst, transactions>>
       ELSE /\ transactions' =
                 IF get_type(inst[p]) # "PROFORMA"
                 THEN Append(transactions,
                             [bill |-> inst[p].pk, id |-> attempts + 1,
                              state |-> "WAITTING_PROCESSING",
                              amount |-> compute_total([lines |-> <<>>,
                                                        prefetched |-> FALSE])])
                 ELSE transactions
            /\ inst' = [inst EXCEPT ![p] =
                           [@ EXCEPT !.due_on = IF @ = "" THEN get_due_date(payment) ELSE @,
                                     !.closed_on = TRUE,
                                     !.is_open = FALSE,
                                     !.is_sent = FALSE,
                                     !.transaction =
                                         IF get_type(inst[p]) # "PROFORMA"
                                         THEN attempts + 1 ELSE 0,
                                     !.pc = "number"]]
            /\ result' = [op |-> "close", p |-> p, value |-> "transaction"]
    /\ UNCHANGED <<Others, objects, archive, year>>

\* Bill.close, line 262: self.number = self.get_number()
CloseNumber(p) ==
    /\ inst[p].pc = "number"
    /\ inst' = [inst EXCEPT ![p] =
                   [@ EXCEPT !.number = get_number(inst[p], NumbersBut(0), year),
                             !.pc = "save"]]
    /\ result' = [op |-> "get_number", p |-> p, value |-> ""]
    /\ UNCHANGED <<Others, objects, archive, year, attempts, transactions>>

\* Bill.close, lines 263-265: render, save and return
CloseSave(p) ==
    /\ inst[p].pc = "save"
    /\ LET saved == with_number([inst[p] EXCEPT !.html = TRUE, !.pc = "idle"]) IN
       /\ inst' = [inst EXCEPT ![p] = saved]
       /\ IF IntegrityError(saved)
          THEN /\ result' = [op |-> "close", p |-> p, value |-> "IntegrityError"]
               /\ UNCHANGED objects
          ELSE /\ result' = [op |-> "close", p |-> p, value |-> "closed"]
               /\ objects' = [objects EXCEPT ![saved.pk] = Row(saved)]
    /\ UNCHANGED <<Others, archive, year, attempts, transactions>>

\* Bill.save of an instance a process holds, lines 315-320
Save(p) ==
    /\ inst[p].pk # 0
    /\ inst[p].pc = "idle"
    /\ LET saved == with_number(inst[p]) IN
       /\ inst' = [inst EXCEPT ![p] = saved]
       /\ IF IntegrityError(saved)
          THEN /\ result' = [op |-> "save", p |-> p, value |-> "IntegrityError"]
               /\ UNCHANGED objects
          ELSE /\ result' = [op |-> "save", p |-> p, value |-> "saved"]
               /\ objects' = [objects EXCEPT ![saved.pk] = Row(saved)]
    /\ UNCHANGED <<Others, archive, year, attempts, transactions>>

\* the year of timezone.now() changes
NewYear ==
    /\ year < YearZero + NumYears - 1
    /\ year' = year + 1
    /\ result' = NoResult
    /\ UNCHANGED <<Others, objects, archive, inst, attempts, transactions>>

NextClose ==
    \/ \E p \in Procs : \E type \in CloseTypes : \E amend_of \in 0 .. NumBills :
          Create(p, type, amend_of)
    \/ \E p \in Procs : \E pk \in 1 .. NumBills : Load(p, pk)
    \/ \E p \in Procs : CloseStart(p, "source")
    \/ \E p \in Procs : CloseNumber(p)
    \/ \E p \in Procs : CloseSave(p)
    \/ \E p \in Procs : Save(p)
    \/ NewYear

SpecClose == InitClose /\ [][NextClose]_vars

(***************************************************************************)
(* Claims about close and the numbers of the bills                         *)
(***************************************************************************)
\* process p has come to the end of a close call that passed the test of
\* is_open
CloseEnded(p) ==
    /\ result.op = "close"
    /\ result.p = p
    /\ result.value \in {"closed", "IntegrityError"}

InLedger(id) == \E i \in DOMAIN transactions : transactions[i].id = id

\* C14: after a close attempt either the bill is persisted closed with its
\* number, closing date and (unless pro forma) its settlement transaction,
\* or the persisted bill is still open and the ledger holds no settlement
\* transaction of that attempt.
C14_CloseAllOrNothing ==
    \A p \in Procs :
        CloseEnded(p) =>
            LET b == inst[p]
                row == objects[b.pk]
            IN  \/ /\ result.value = "closed"
                   /\ ~row.is_open
                   /\ row.closed_on
                   /\ row.number = b.number
                   /\ b.type # "PROFORMA" => InLedger(b.transaction)
                \/ /\ result.value # "closed"
                   /\ row.is_open
                   /\ ~InLedger(b.transaction)

\* C15: the number get_number gives a bill at close carries the sequence
\* value that follows the greatest value given so far for the prefix, and
\* is the number of no bill of the table; also after a change of year and
\* when the value has more digits than BILLS_NUMBER_LENGTH.
C15_NextNumberFollowsMaximum ==
    \A p \in Procs :
        (result.op = "get_number" /\ result.p = p) =>
            /\ inst[p].number \notin NumbersBut(0)
            /\ inst[p].number = get_number_by_value(inst[p], NumbersBut(0), year)

\* C16: two concurrent closes never hold the same number from get_number,
\* and no close is under way on a bill that the table holds closed already.
C16_ConcurrentClosesSerialized ==
    /\ \A p, q \in Procs :
          (p # q /\ inst[p].pc = "save" /\ inst[q].pc = "save")
              => inst[p].number # inst[q].number
    /\ \A p \in Procs :
          inst[p].pc \in {"number", "save"} => objects[inst[p].pk].is_open

\* C17: the number of a bill is blank until close, is set once by close,
\* and never changes afterwards, across any sequence of save and close
\* calls.
C17_NumberAssignedOnceAtClose ==
    [][\A pk \in DOMAIN objects' :
          /\ objects'[pk].is_open => objects'[pk].number = NoNumber
          /\ (pk \in DOMAIN objects /\ ~objects[pk].is_open)
                => objects'[pk].number = objects[pk].number]_vars

\* C19: a close of an open amendment bill whose amend_of bill is open
\* raises a ValidationError, and the amendment stays open with no
\* transaction created.
C19_CloseOfAmendmentOfOpenBillRaises ==
    \A p \in Procs :
        LET b == inst[p] IN
        (/\ result.op = "close"
         /\ result.p = p
         /\ result.value \notin {"TypeError", "closed", "IntegrityError"}
         /\ b.type \in AmendmentTypes
         /\ b.amend_of # 0
         /\ objects[b.amend_of].is_open)
            => /\ result.value = "ValidationError"
               /\ b.is_open
               /\ \A i \in DOMAIN transactions : transactions[i].bill # b.pk

(***************************************************************************)
(* SpecClean: Bill.clean of a bill and the bill it amends.                 *)
(***************************************************************************)
NoErrors == [amend_of |-> "", account |-> ""]

\* lines 192-200: the errors dict after the four tests, every test
\* assigning the message of its field
clean_errors(b) ==
    LET first == IF b.type \notin AmendmentTypes
                 THEN [NoErrors EXCEPT !.amend_of = "Type is not an amendment."]
                 ELSE NoErrors
        second == IF b.amend_of.account # b.account
                  THEN [first EXCEPT !.account = "Amend of related account doesn't match."]
                  ELSE first
        third == IF b.amend_of.is_open
                 THEN [second EXCEPT !.amend_of = "Related invoice is in open state."]
                 ELSE second
    IN  IF b.amend_of.type \in AmendmentTypes
        THEN [third EXCEPT !.amend_of = "Related invoice is an amendment."]
        ELSE third

\* Bill.clean, lines 190-202
clean(b) ==
    IF b.amend_of_id = 0 THEN [raised |-> FALSE, errors |-> NoErrors]
    ELSE LET errors == clean_errors(b) IN
         [raised |-> errors # NoErrors, errors |-> errors]

NoBill == [type |-> "", account |-> 0, is_open |-> FALSE]

InitClean ==
    /\ \E type \in TYPES : \E account \in 1 .. NumAccounts : \E amend_of_id \in {0, 1} :
       \E of_type \in TYPES : \E of_account \in 1 .. NumAccounts :
          bill = [type |-> type, account |-> account, amend_of_id |-> amend_of_id,
                  amend_of |-> IF amend_of_id = 0 THEN NoBill
                               ELSE [type |-> of_type, account |-> of_account,
                                     is_open |-> TRUE]]
    /\ transactions = <<>>
    /\ cached = NotCached
    /\ result = NoResult
    /\ restart_apache2 = NoFile
    /\ restart_apache2_locked = NoFile
    /\ pc = <<>>
    /\ state = <<>>
    /\ is_last = <<>>
    /\ UPDATED_APACHE = <<>>
    /\ reloads = 0
    /\ sawLast = {}
    /\ early = FALSE
    /\ MERGE = FALSE
    /\ sharedPaths = FALSE
    /\ webapp = <<>>
    /\ files = <<>>
    /\ lastRun = <<>>
    /\ dirty = FALSE
    /\ edits = 0
    /\ NoClose
    /\ NoMemo
    /\ NoSaas
    /\ NoMail

\* bill.clean() is called
Clean ==
    /\ result' = [op |-> "clean", value |-> clean(bill), fresh |-> TRUE]
    /\ UNCHANGED <<coordVars, saveVars, closeVars, memoVars, saasVars, mailVars, bill, transactions, cached>>

\* the bill that is amended is closed, line 260
CloseAmended ==
    /\ bill.amend_of_id # 0
    /\ bill.amend_of.is_open
    /\ bill' = [bill EXCEPT !.amend_of.is_open = FALSE]
    /\ result' = NoResult
    /\ UNCHANGED <<coordVars, saveVars, closeVars, memoVars, saasVars, mailVars, transactions, cached>>

NextClean ==
    \/ Clean
    \/ CloseAmended

SpecClean == InitClean /\ [][NextClean]_vars

(***************************************************************************)
(* Claims about clean                                                      *)
(***************************************************************************)
\* the messages of the conditions of a field that the bill violates
Violated(b, field) ==
    IF field = "account"
    THEN {m \in {"Amend of related account doesn't match."} :
             b.amend_of.account # b.account}
    ELSE {m \in {"Type is not an amendment."} : b.type \notin AmendmentTypes}
         \cup {m \in {"Related invoice is in open state."} : b.amend_of.is_open}
         \cup {m \in {"Related invoice is an amendment."} :
                  b.amend_of.type \in AmendmentTypes}

\* the messages an error reports on a field
Reported(errors, field) == {m \in {errors[field]} : m # ""}

\* C18: for a bill with amend_of, clean raises if and only if a condition
\* is violated, and the error reports every violated condition on its
\* field, none dropped.
C18_CleanReportsEveryViolation ==
    (result.op = "clean" /\ bill.amend_of_id # 0) =>
        /\ result.value.raised
              <=> (Violated(bill, "amend_of") \cup Violated(bill, "account")) # {}
        /\ \A field \in {"amend_of", "account"} :
              Reported(result.value.errors, field) = Violated(bill, field)

(***************************************************************************)
(* Claims about the marker a commit that is not last leaves                *)
(***************************************************************************)
\* C20: a commit that is not last leaves in the marker the entries of the
\* other backends it read, each unchanged on its own line, followed by its
\* own line "<backend> RESTART" if and only if it ran with
\* UPDATED_APACHE=1, moves the locked file back and reloads nothing.
C20_NotLastRewritesMarker ==
    [][\A b \in Backends :
          (pc[b] = "release" /\ pc'[b] = "done") =>
              /\ restart_apache2'.exists
              /\ restart_apache2'.lines =
                    state[b] \o (IF UPDATED_APACHE[b] THEN << <<b, RESTART>> >> ELSE <<>>)
              /\ ~restart_apache2_locked'.exists
              /\ reloads' = reloads]_vars

\* C21: once every backend that ran prepare has finished commit, neither
\* /dev/shm/restart.apache2 nor /dev/shm/restart.apache2.locked exists, so
\* no entry and no RESTART request is carried over into the next batch;
\* also when a prepare ran while another commit held the lock.
C21_MarkerGoneAfterLastCommit ==
    ((\A b \in Backends : pc[b] \in {"start", "done"}) /\
     (\E b \in Backends : pc[b] = "done"))
        => (~restart_apache2.exists /\ ~restart_apache2_locked.exists)

NumMemoBills == 2

MaxHeld == 2

MemoLines == SeqsUpTo(LineSet, 1)

\* the key of a call in the cache of lru_cache: the arguments, compared by
\* == and hash; two Bill instances are equal when their pk is
lru_key(instance) == instance.pk

\* the lines the instance reads from the database, self.lines
lines_of(instance) == rows[instance.pk].lines

\* lines 350-362 with the decorator: the value of the cache for the key of
\* the instance if there is one, else the value compute_total computes
cached_compute_total(instance) ==
    IF lru_key(instance) \in DOMAIN lru
    THEN lru[lru_key(instance)].value
    ELSE compute_total([instance.bill EXCEPT !.lines = lines_of(instance)])

InitMemo ==
    /\ \E ls \in [1 .. NumMemoBills -> MemoLines] :
          rows = [pk \in 1 .. NumMemoBills |->
                    [NewBill("INVOICE", ls[pk], "") EXCEPT
                        !.number = [@ EXCEPT !.digits = padded(pk)]]]
    /\ held = <<>>
    /\ lru = <<>>
    /\ transactions = <<>>
    /\ result = NoResult
    /\ bill = <<>>
    /\ cached = NotCached
    /\ restart_apache2 = NoFile
    /\ restart_apache2_locked = NoFile
    /\ pc = <<>>
    /\ state = <<>>
    /\ is_last = <<>>
    /\ UPDATED_APACHE = <<>>
    /\ reloads = 0
    /\ sawLast = {}
    /\ early = FALSE
    /\ MERGE = FALSE
    /\ sharedPaths = FALSE
    /\ webapp = <<>>
    /\ files = <<>>
    /\ lastRun = <<>>
    /\ dirty = FALSE
    /\ edits = 0
    /\ NoClose
    /\ NoSaas
    /\ NoMail

MemoOthers == <<coordVars, saveVars, closeVars, saasVars, mailVars, bill, cached>>

\* the process loads a bill: a new instance
MemoLoad(pk) ==
    /\ Len(held) < MaxHeld
    /\ held' = Append(held, [pk |-> pk, bill |-> rows[pk], called |-> FALSE])
    /\ result' = NoResult
    /\ UNCHANGED <<MemoOthers, rows, lru, transactions>>

\* a line is added to an open bill, or removed or changed, in the database
EditLines(pk, ls) ==
    /\ rows[pk].is_open
    /\ ls # rows[pk].lines
    /\ rows' = [rows EXCEPT ![pk].lines = ls]
    /\ result' = NoResult
    /\ UNCHANGED <<MemoOthers, held, lru, transactions>>

\* instance.compute_total(), lines 350-362
MemoComputeTotal(i) ==
    /\ i \in DOMAIN held
    /\ LET instance == held[i]
           hit == lru_key(instance) \in DOMAIN lru
           v == cached_compute_total(instance)
       IN  /\ lru' = IF hit THEN lru
                     ELSE (lru_key(instance) :> [value |-> v, by |-> i]) @@ lru
           /\ held' = [held EXCEPT ![i].called = TRUE]
           /\ result' = [op |-> "compute_total", value |-> v, fresh |-> ~hit,
                         inst |-> i, pk |-> instance.pk,
                         first |-> ~instance.called]
    /\ UNCHANGED <<MemoOthers, rows, transactions>>

\* instance.close(), lines 248-265, in a process that runs alone
MemoClose(i, payment) ==
    /\ i \in DOMAIN held
    /\ LET instance == held[i]
           hit == lru_key(instance) \in DOMAIN lru
           total == cached_compute_total(instance)
           closed == [instance.bill EXCEPT
                        !.due_on = IF @ = "" THEN get_due_date(payment) ELSE @,
                        !.closed_on = TRUE,
                        !.is_open = FALSE,
                        !.is_sent = FALSE]
           numbers == {rows[k].number : k \in DOMAIN rows}
           saved == [closed EXCEPT !.number = get_number(closed, numbers, YearZero),
                                   !.html = TRUE,
                                   !.lines = lines_of(instance)]
       IN  IF raises_not_open(instance.bill)
           THEN /\ result' = [op |-> "close", value |-> "TypeError", fresh |-> FALSE,
                              inst |-> i, pk |-> instance.pk, first |-> FALSE]
                /\ UNCHANGED <<rows, held, lru, transactions>>
           ELSE /\ lru' = IF hit THEN lru
                          ELSE (lru_key(instance) :> [value |-> total, by |-> i]) @@ lru
                /\ transactions' =
                      IF get_type(instance.bill) # "PROFORMA"
                      THEN Append(transactions,
                                  [bill |-> instance.pk,
                                   state |-> "WAITTING_PROCESSING",
                                   amount |-> total])
                      ELSE transactions
                /\ held' = [held EXCEPT ![i].bill = saved, ![i].called = TRUE]
                /\ rows' = [rows EXCEPT ![instance.pk] = saved]
                /\ result' = [op |-> "close", value |-> "closed", fresh |-> ~hit,
                              inst |-> i, pk |-> instance.pk,
                              first |-> ~instance.called]
    /\ UNCHANGED MemoOthers

NextMemo ==
    \/ \E pk \in 1 .. NumMemoBills : MemoLoad(pk)
    \/ \E pk \in 1 .. NumMemoBills : \E ls \in MemoLines : EditLines(pk, ls)
    \/ \E i \in 1 .. MaxHeld : MemoComputeTotal(i)
    \/ \E i \in 1 .. MaxHeld : MemoClose(i, "source")

SpecMemo == InitMemo /\ [][NextMemo]_vars

(***************************************************************************)
(* Claims about the memoization                                            *)
(***************************************************************************)
\* C23: the memoization of compute_total is per bill instance: a value
\* cached by one instance is never returned to another instance, the first
\* compute_total of an instance is the total of the lines the bill has
\* then, and the transaction close creates on an instance that never
\* computed a total carries the total of the lines at the time of the close.
C23_MemoPerInstance ==
    /\ (result.op = "compute_total" /\ ~result.fresh)
            => lru[result.pk].by = result.inst
    /\ (result.op = "compute_total" /\ result.first)
            => result.value =
                  Round2(TaxedSum(rows[result.pk].lines, Len(rows[result.pk].lines)), 10000)
    /\ (result.op = "close" /\ result.value = "closed" /\ result.first)
            => transactions[Len(transactions)].amount =
                  Round2(TaxedSum(rows[result.pk].lines, Len(rows[result.pk].lines)), 10000)

C25_SaveRaisesAppendsNothing ==
    lastRun.kind = "save_raised" => lastRun.appended = 0

(***************************************************************************)
(* SpecSaas: WordpressMuBackend.save and delete fill the script buffer of  *)
(* the backend; the executor runs the buffer at the end.                   *)
(***************************************************************************)
NumSaas == 2

MaxCmds == 4

\* saas.custom_url: blank, or the scheme, the host and the path of a URL
CustomUrls == {<<>>, <<"http", "blog.example.org", "">>,
               <<"http", "example.org", "/blog">>}

\* urlparse(custom_url), line 170
urlparse(url) == [scheme |-> url[1], netloc |-> url[2], path |-> url[3]]

\* get_context, lines 163-175: the custom keys are set only for a custom URL
get_context(s) ==
    LET context == [k \in {"db_name", "domain"} |->
                       IF k = "db_name" THEN <<"SAAS_WORDPRESS_DB_NAME">>
                       ELSE <<"site_domain", s>>]
    IN  IF saas[s].custom_url # <<>>
        THEN LET custom_url == urlparse(saas[s].custom_url) IN
             [k \in {"db_name", "domain", "custom_domain", "custom_path"} |->
                IF k = "custom_domain" THEN <<custom_url.netloc>>
                ELSE IF k = "custom_path" THEN <<custom_url.path>>
                ELSE context[k]]
        ELSE context

\* the %(key)s conversions of the script of lines 125-157
TemplateKeys == {"db_name", "domain", "custom_domain", "custom_path"}

\* text % context raises KeyError when the mapping lacks a key of the text
raises_KeyError(context) == ~(TemplateKeys \subseteq DOMAIN context)

\* the buffer holds a callable with its arguments, or a text
Callable(method, s) == [kind |-> "callable", method |-> method, args |-> <<s>>]

Literal(context) == [kind |-> "text", text |-> [k \in TemplateKeys |-> context[k]]]

\* ServiceController.append(item, *args): the item goes to the end of the
\* buffer and nothing is invoked
append(buffer, item) == Append(buffer, item)

InitSaas ==
    /\ saas \in [1 .. NumSaas -> [custom_url : CustomUrls]]
    /\ cmds = <<>>
    /\ invoked = <<>>
    /\ flushed = FALSE
    /\ result = NoResult
    /\ transactions = <<>>
    /\ bill = <<>>
    /\ cached = NotCached
    /\ restart_apache2 = NoFile
    /\ restart_apache2_locked = NoFile
    /\ pc = <<>>
    /\ state = <<>>
    /\ is_last = <<>>
    /\ UPDATED_APACHE = <<>>
    /\ reloads = 0
    /\ sawLast = {}
    /\ early = FALSE
    /\ MERGE = FALSE
    /\ sharedPaths = FALSE
    /\ webapp = <<>>
    /\ files = <<>>
    /\ lastRun = <<>>
    /\ dirty = FALSE
    /\ edits = 0
    /\ NoClose
    /\ NoMemo
    /\ NoMail

SaasOthers == <<coordVars, saveVars, closeVars, memoVars, mailVars, bill, transactions, cached>>

\* WordpressMuBackend.save, lines 122-158
WpSave(s) ==
    /\ ~flushed
    /\ Len(cmds) + 2 <= MaxCmds
    /\ LET first == append(cmds, Callable("create_blog", s))
           context == get_context(s)
       IN  IF raises_KeyError(context)
           THEN /\ cmds' = first
                /\ result' = [op |-> "save", value |-> "KeyError", fresh |-> FALSE,
                              s |-> s, before |-> Len(cmds)]
           ELSE /\ cmds' = append(first, Literal(context))
                /\ result' = [op |-> "save", value |-> "", fresh |-> FALSE,
                              s |-> s, before |-> Len(cmds)]
    /\ UNCHANGED <<SaasOthers, saas, invoked, flushed>>

\* WordpressMuBackend.delete, lines 160-161
WpDelete(s) ==
    /\ ~flushed
    /\ Len(cmds) + 1 <= MaxCmds
    /\ cmds' = append(cmds, Callable("delete_blog", s))
    /\ result' = [op |-> "delete", value |-> "", fresh |-> FALSE,
                  s |-> s, before |-> Len(cmds)]
    /\ UNCHANGED <<SaasOthers, saas, invoked, flushed>>

\* the executor runs the buffer in order: a callable is invoked with its
\* arguments, a text is run as a script
Flush ==
    /\ ~flushed
    /\ flushed' = TRUE
    /\ invoked' = SelectSeq(cmds, LAMBDA c : c.kind = "callable")
    /\ result' = [op |-> "flush", value |-> "", fresh |-> FALSE,
                  s |-> 0, before |-> Len(cmds)]
    /\ UNCHANGED <<SaasOthers, saas, cmds>>

NextSaas ==
    \/ \E s \in 1 .. NumSaas : WpSave(s)
    \/ \E s \in 1 .. NumSaas : WpDelete(s)
    \/ Flush

SpecSaas == InitSaas /\ [][NextSaas]_vars

(***************************************************************************)
(* Claims about WordpressMuBackend                                         *)
(***************************************************************************)
\* C26: for every SaaS instance, with or without a custom URL, save appends
\* exactly two operations to the buffer, in this order: the callable
\* create_blog bound to the instance, then the text of the domain mapping
\* script; create_blog is not invoked before the flush.
C26_SaveAppendsCallableThenScript ==
    result.op = "save" =>
        /\ result.value = ""
        /\ Len(cmds) = result.before + 2
        /\ cmds[result.before + 1] = Callable("create_blog", result.s)
        /\ cmds[Len(cmds)].kind = "text"
        /\ invoked = <<>>

(***************************************************************************)
(* SpecMail: the runs of send_pending over the queue of messages.  A run   *)
(* holds the lock file, so the runs follow one another.                    *)
(***************************************************************************)
NumMessages == 3

MaxBulk == 2

MaxTries == 4

Messages == 1 .. NumMessages

\* settings.MAILER_DEFERE_SECONDS, line 56: the delay before each retry
MAILER_DEFERE_SECONDS == <<300, 600>>

\* what connection.connection.sendmail does, lines 27-34: the message is
\* accepted, an exception of the except clause is raised, or another one
Outcomes == {"accepted", "refused", "other_error"}

\* Message.sent(), line 36
sent(message) == [message EXCEPT !.state = "SENT"]

\* Message.defer(), line 33
defer(message) == [message EXCEPT !.state = "DEFERRED"]

\* the rows of the given state in the order of their pk
RECURSIVE filter(_, _)
filter(st, n) ==
    IF n = 0 THEN <<>>
    ELSE IF messages[n].state = st THEN Append(filter(st, n - 1), n)
    ELSE filter(st, n - 1)

\* lines 55-58: the rows a Q(retries=retries, last_try__lte=now-delta)
\* can select, for the retries enumerate gives
Retriable(m) ==
    /\ messages[m].state = "DEFERRED"
    /\ \E retries \in 0 .. Len(MAILER_DEFERE_SECONDS) - 1 :
          messages[m].retries = retries

InitMail ==
    /\ messages = [m \in Messages |-> [state |-> "QUEUED", retries |-> 0]]
    /\ tries = [m \in Messages |-> 0]
    /\ bulk \in 1 .. MaxBulk
    /\ phase = "idle"
    /\ connection = "None"
    /\ cur = 0
    /\ todo = <<>>
    /\ result = NoResult
    /\ transactions = <<>>
    /\ bill = <<>>
    /\ cached = NotCached
    /\ restart_apache2 = NoFile
    /\ restart_apache2_locked = NoFile
    /\ pc = <<>>
    /\ state = <<>>
    /\ is_last = <<>>
    /\ UPDATED_APACHE = <<>>
    /\ reloads = 0
    /\ sawLast = {}
    /\ early = FALSE
    /\ MERGE = FALSE
    /\ sharedPaths = FALSE
    /\ webapp = <<>>
    /\ files = <<>>
    /\ lastRun = <<>>
    /\ dirty = FALSE
    /\ edits = 0
    /\ NoClose
    /\ NoMemo
    /\ NoSaas

MailOthers == <<coordVars, saveVars, closeVars, memoVars, saasVars, bill,
                transactions, cached>>

\* send_pending is called, lines 42-46: the lock is taken and the queued
\* messages are selected
StartRun ==
    /\ phase = "idle"
    /\ phase' = "queued"
    /\ connection' = "None"
    /\ cur' = 0
    /\ todo' = filter("QUEUED", NumMessages)
    /\ result' = NoResult
    /\ UNCHANGED <<MailOthers, messages, tries, bulk>>

\* send_pending is called while a run holds the lock, lines 43 and 69-70
RunLocked ==
    /\ phase # "idle"
    /\ result.op # "locked"
    /\ result' = [op |-> "locked", value |-> "OperationLocked"]
    /\ UNCHANGED <<MailOthers, mailVars>>

\* one turn of a loop, lines 47-52 and 60-65, with send_message, lines 16-39
SendNext(outcome) ==
    /\ phase \in {"queued", "deferred"}
    /\ todo # <<>>
    /\ tries[Head(todo)] < MaxTries
    /\ LET m == Head(todo)
           closes == cur >= bulk /\ connection # "None"
           after_close == IF closes THEN "closed" ELSE connection
           used == IF after_close = "None" THEN "open" ELSE after_close
           saved == IF messages[m].state # "QUEUED"
                    THEN [messages[m] EXCEPT !.retries = @ + 1]
                    ELSE messages[m]
           raised == IF used = "closed" THEN "AttributeError"
                     ELSE IF outcome = "other_error" THEN "SMTPException"
                     ELSE ""
       IN  /\ connection' = used
           /\ tries' = [tries EXCEPT ![m] = @ + 1]
           /\ result' = [op |-> "send_message", value |-> raised, m |-> m,
                         via |-> used, was |-> messages[m]]
           /\ IF raised # ""
              THEN \* the exception leaves send_pending and releases the lock
                   /\ messages' = [messages EXCEPT ![m] = saved]
                   /\ phase' = "idle"
                   /\ todo' = <<>>
                   /\ cur' = IF closes THEN 0 ELSE cur
              ELSE /\ messages' = [messages EXCEPT ![m] =
                                      IF outcome = "accepted" THEN sent(saved)
                                      ELSE defer(saved)]
                   /\ todo' = Tail(todo)
                   /\ cur' = (IF closes THEN 0 ELSE cur) + 1
                   /\ UNCHANGED phase
    /\ UNCHANGED <<MailOthers, bulk>>

\* lines 53-59: the loop over the queued messages is over and the deferred
\* messages whose delay has passed are selected
SelectDeferred ==
    /\ phase = "queued"
    /\ todo = <<>>
    /\ \E due \in SUBSET {m \in Messages : Retriable(m)} :
          todo' = SelectSeq(filter("DEFERRED", NumMessages), LAMBDA m : m \in due)
    /\ phase' = "deferred"
    /\ result' = NoResult
    /\ UNCHANGED <<MailOthers, messages, tries, bulk, connection, cur>>

\* lines 66-68: the last connection is closed and the run returns
EndRun ==
    /\ phase = "deferred"
    /\ todo = <<>>
    /\ connection' = IF connection # "None" THEN "closed" ELSE connection
    /\ phase' = "idle"
    /\ result' = NoResult
    /\ UNCHANGED <<MailOthers, messages, tries, bulk, cur, todo>>

NextMail ==
    \/ StartRun
    \/ RunLocked
    \/ \E outcome \in Outcomes : SendNext(outcome)
    \/ SelectDeferred
    \/ EndRun

SpecMail == InitMail /\ [][NextMail]_vars

(***************************************************************************)
(* Claims about the mailer                                                 *)
(***************************************************************************)
\* C27: in a run of send_pending every message is sent over an open
\* connection: after the connection was closed because bulk messages were
\* sent, the next message goes over a newly opened connection.
C27_SentOverOpenConnection ==
    result.op = "send_message" => result.via = "open"

\* C28: a message that keeps failing is attempted at most
\* 1 + len(MAILER_DEFERE_SECONDS) times; its retries are unchanged by the
\* attempt from QUEUED and grow by 1 on each later attempt; a DEFERRED
\* message with retries >= len(MAILER_DEFERE_SECONDS) is not attempted.
C28_RetriesBounded ==
    /\ \A m \in Messages : tries[m] <= 1 + Len(MAILER_DEFERE_SECONDS)
    /\ result.op = "send_message" =>
          /\ result.was.state = "QUEUED" =>
                messages[result.m].retries = result.was.retries
          /\ result.was.state # "QUEUED" =>
                messages[result.m].retries = result.was.retries + 1
          /\ result.was.state = "DEFERRED" =>
                result.was.retries < Len(MAILER_DEFERE_SECONDS)

RECURSIVE SumGroups(_, _)
SumGroups(groups, taxes) ==
    IF taxes = {} THEN 0
    ELSE LET tax == CHOOSE t \in taxes : TRUE IN
         groups[tax][1] + groups[tax][2] + SumGroups(groups, taxes \ {tax})

\* C30: the breakdown agrees with the total: the sum over the tax groups of
\* compute_subtotals of (subtotal + tax) equals compute_total, and
\* compute_base + compute_tax equals compute_total.
C30_BreakdownAddsUpToTotal ==
    /\ result.op = "compute_subtotals" =>
          SumGroups(result.value, DOMAIN result.value) = compute_total(bill)
    /\ result.op = "compute_total" =>
          compute_base(bill) + compute_tax(bill) = result.value

====
